---- MODULE Spec2Model ----
(***************************************************************************)
(* Cursor pagination over a MongoDB collection (package mongo, find.go,    *)
(* and package bson, bson.go).  Find is modelled as the composition of the *)
(* functions of find.go; the collection is a set of documents and the      *)
(* driver's Find/CountDocuments are evaluated over it.                     *)
(***************************************************************************)
EXTENDS Integers, Sequences, FiniteSets, TLC

\* ------------------------------------------------------------------ bounds
MaxId == 3
MaxVal == 2
MaxLimit == 2
MaxPairs == 3

\* --------------------------------------------------------------- documents
Ids == 1..MaxId
Vals == 1..MaxVal
Fields == {"_id", "name", "data"}

\* A document of the collection: the fields of MongoItem that pagination uses.
Docs == [_id : Ids, name : Vals, data : {1, 2}]

\* Reverse of a sequence.
Reverse(s) == [i \in 1..Len(s) |-> s[Len(s) + 1 - i]]

\* ------------------------------------------------------------ BSON, base64
\* UTF-8 bytes of the field names used as document keys.
KeyBytes(f) ==
  CASE f = "_id"  -> <<95, 105, 100>>
    [] f = "name" -> <<110, 97, 109, 101>>
    [] f = "data" -> <<100, 97, 116, 97>>

\* Little-endian int32, as BSON writes lengths and int32 values.
Int32LE(n) ==
  <<n % 256, (n \div 256) % 256, (n \div 65536) % 256, (n \div 16777216) % 256>>

\* The int32 of four little-endian bytes, in two's complement.
FromInt32LE(b) ==
  b[1] + 256 * b[2] + 65536 * b[3]
    + 16777216 * (IF b[4] >= 128 THEN b[4] - 256 ELSE b[4])

\* One element of a BSON document: type 0x10 (int32), cstring key, value.
MarshalElement(e) == <<16>> \o KeyBytes(e.Key) \o <<0>> \o Int32LE(e.Value)

RECURSIVE MarshalElements(_)
MarshalElements(d) ==
  IF d = <<>> THEN <<>> ELSE MarshalElement(Head(d)) \o MarshalElements(Tail(d))

\* bson.Marshal of a bson.D: int32 total length, the elements, a 0 byte.
Marshal(d) ==
  LET body == MarshalElements(d)
  IN  Int32LE(Len(body) + 5) \o body \o <<0>>

\* Position of the first 0 byte of b at or after position i (0 when none).
RECURSIVE ZeroAt(_, _)
ZeroAt(b, i) ==
  IF i > Len(b) THEN 0 ELSE IF b[i] = 0 THEN i ELSE ZeroAt(b, i + 1)

\* The field whose key bytes are k ("" when none of the modelled fields).
KeyOf(k) == IF \E f \in Fields : KeyBytes(f) = k
            THEN CHOOSE f \in Fields : KeyBytes(f) = k
            ELSE ""

\* Parses the elements of a document body from position i up to the final
\* 0 byte at position Len(b); err is TRUE on any malformed element.
RECURSIVE UnmarshalElements(_, _)
UnmarshalElements(b, i) ==
  IF i = Len(b) THEN [err |-> FALSE, d |-> <<>>]
  ELSE IF i > Len(b) \/ b[i] # 16 THEN [err |-> TRUE, d |-> <<>>]
  ELSE LET z == ZeroAt(b, i + 1)
       IN  IF z = 0 \/ z + 4 >= Len(b) THEN [err |-> TRUE, d |-> <<>>]
           ELSE LET key  == KeyOf(SubSeq(b, i + 1, z - 1))
                    val  == FromInt32LE(SubSeq(b, z + 1, z + 4))
                    rest == UnmarshalElements(b, z + 5)
                IN  IF key = "" \/ rest.err THEN [err |-> TRUE, d |-> <<>>]
                    ELSE [err |-> FALSE,
                          d |-> <<[Key |-> key, Value |-> val]>> \o rest.d]

\* bson.Unmarshal into a bson.D: the length prefix must be the length of the
\* data and the last byte must be 0.
Unmarshal(b) ==
  IF Len(b) < 5 THEN [err |-> TRUE, d |-> <<>>]
  ELSE IF FromInt32LE(SubSeq(b, 1, 4)) # Len(b) \/ b[Len(b)] # 0
       THEN [err |-> TRUE, d |-> <<>>]
       ELSE UnmarshalElements(b, 5)

\* The standard base64 alphabet as character codes: A-Z a-z 0-9 + /
StdAlphabet(i) ==
  IF i < 26 THEN 65 + i
  ELSE IF i < 52 THEN 97 + (i - 26)
  ELSE IF i < 62 THEN 48 + (i - 52)
  ELSE IF i = 62 THEN 43 ELSE 47

\* The URL-safe base64 alphabet as character codes: A-Z a-z 0-9 - _
UrlAlphabet(i) ==
  IF i < 26 THEN 65 + i
  ELSE IF i < 52 THEN 97 + (i - 26)
  ELSE IF i < 62 THEN 48 + (i - 52)
  ELSE IF i = 62 THEN 45 ELSE 95

\* Index of character code c in the URL-safe alphabet, -1 when not in it.
UrlIndex(c) ==
  IF c >= 65 /\ c <= 90 THEN c - 65
  ELSE IF c >= 97 /\ c <= 122 THEN c - 97 + 26
  ELSE IF c >= 48 /\ c <= 57 THEN c - 48 + 52
  ELSE IF c = 45 THEN 62
  ELSE IF c = 95 THEN 63 ELSE -1

\* base64.RawURLEncoding.EncodeToString: 3 bytes to 4 characters, a final
\* group of 1 or 2 bytes to 2 or 3 characters, no padding.
RECURSIVE EncodeToString(_)
EncodeToString(b) ==
  IF Len(b) = 0 THEN <<>>
  ELSE IF Len(b) = 1 THEN
    <<UrlAlphabet(b[1] \div 4), UrlAlphabet((b[1] % 4) * 16)>>
  ELSE IF Len(b) = 2 THEN
    <<UrlAlphabet(b[1] \div 4),
      UrlAlphabet((b[1] % 4) * 16 + b[2] \div 16),
      UrlAlphabet((b[2] % 16) * 4)>>
  ELSE
    <<UrlAlphabet(b[1] \div 4),
      UrlAlphabet((b[1] % 4) * 16 + b[2] \div 16),
      UrlAlphabet((b[2] % 16) * 4 + b[3] \div 64),
      UrlAlphabet(b[3] % 64)>> \o EncodeToString(SubSeq(b, 4, Len(b)))

\* base64.RawURLEncoding.DecodeString: fails on a character outside the
\* alphabet (the padding character included) and on a final group of one
\* character.
RECURSIVE DecodeString(_)
DecodeString(s) ==
  IF Len(s) = 0 THEN [err |-> FALSE, data |-> <<>>]
  ELSE IF \E i \in 1..Len(s) : UrlIndex(s[i]) = -1 THEN [err |-> TRUE, data |-> <<>>]
  ELSE IF Len(s) = 1 THEN [err |-> TRUE, data |-> <<>>]
  ELSE LET a == UrlIndex(s[1])
           b == UrlIndex(s[2])
       IN  IF Len(s) = 2 THEN [err |-> FALSE, data |-> <<a * 4 + b \div 16>>]
           ELSE LET c == UrlIndex(s[3])
                IN  IF Len(s) = 3
                    THEN [err |-> FALSE,
                          data |-> <<a * 4 + b \div 16, (b % 16) * 16 + c \div 4>>]
                    ELSE LET d    == UrlIndex(s[4])
                             rest == DecodeString(SubSeq(s, 5, Len(s)))
                         IN  IF rest.err THEN [err |-> TRUE, data |-> <<>>]
                             ELSE [err |-> FALSE,
                                   data |-> <<a * 4 + b \div 16,
                                              (b % 16) * 16 + c \div 4,
                                              (c % 4) * 64 + d>> \o rest.data]

\* encodeCursor encodes cursor data into a URL-safe string.
encodeCursor(cursorData) == EncodeToString(Marshal(cursorData))

\* decodeCursor once the string is base64-decoded: unmarshals the data.
UnmarshalDecoded(dec) ==
  IF dec.err THEN [err |-> TRUE, d |-> <<>>] ELSE Unmarshal(dec.data)

\* decodeCursor decodes a cursor string into a bson.D.
decodeCursor(cursor) == UnmarshalDecoded(DecodeString(cursor))

\* ------------------------------------------------- package bson, bson.go
\* A query document {field: {op: value}}.
FieldQuery(f, op, v) == [op |-> op, field |-> f, value |-> v]

\* A query document {"$and": args} or {"$or": args}.
ListQuery(op, args) == [op |-> op, args |-> args]

\* fmt.Sprintf("%se", op) for the two operators GenerateCursorQuery accepts.
RangeOp(op) == IF op = "$gt" THEN "$gte" ELSE "$lte"

\* The clause GenerateCursorQuery builds for position i: field i compared
\* with comparisonOps[i], or field i in range and _id compared with the same
\* comparisonOps[i] against the value idValue.
CursorClause(paginatedFields, comparisonOps, cursorFieldValues, i, idValue) ==
  ListQuery("$or", <<
    FieldQuery(paginatedFields[i], comparisonOps[i], cursorFieldValues[i]),
    ListQuery("$and", <<
      FieldQuery(paginatedFields[i], RangeOp(comparisonOps[i]), cursorFieldValues[i]),
      FieldQuery("_id", comparisonOps[i], idValue)>>)>>)

\* GenerateCursorQuery generates and returns a cursor range query.
GenerateCursorQuery(paginatedFields, comparisonOps, cursorFieldValues) ==
  IF Len(paginatedFields) # Len(cursorFieldValues)
  THEN [err |-> "wrong number of cursor field values specified", query |-> <<>>]
  ELSE IF Len(comparisonOps) # Len(cursorFieldValues)
  THEN [err |-> "wrong number of comparison operators specified", query |-> <<>>]
  ELSE IF \E i \in 1..Len(comparisonOps) : comparisonOps[i] \notin {"$lt", "$gt"}
  THEN [err |-> "invalid comparison operator specified: only $lt and $gt are allowed",
        query |-> <<>>]
  ELSE IF Len(paginatedFields) = 0
  THEN [err |-> "panic: index out of range", query |-> <<>>]
  ELSE IF Len(paginatedFields) > 1
  THEN IF Len(paginatedFields) = 2
       THEN [err |-> "",
             query |-> CursorClause(paginatedFields, comparisonOps,
                                    cursorFieldValues, 1, cursorFieldValues[2])]
       ELSE [err |-> "",
             query |-> ListQuery("$and",
               [i \in 1..(Len(paginatedFields) - 1) |->
                  CursorClause(paginatedFields, comparisonOps, cursorFieldValues,
                               i, cursorFieldValues[Len(cursorFieldValues)])])]
  ELSE [err |-> "",
        query |-> FieldQuery("_id", comparisonOps[1], cursorFieldValues[1])]

\* ------------------------------------------------ the collection (driver)
\* Whether document doc satisfies query document q.
RECURSIVE Matches(_, _)
Matches(doc, q) ==
  CASE q.op = "$and" -> \A i \in 1..Len(q.args) : Matches(doc, q.args[i])
    [] q.op = "$or"  -> \E i \in 1..Len(q.args) : Matches(doc, q.args[i])
    [] q.op = "$gt"  -> q.field \in DOMAIN doc /\ doc[q.field] > q.value
    [] q.op = "$lt"  -> q.field \in DOMAIN doc /\ doc[q.field] < q.value
    [] q.op = "$gte" -> q.field \in DOMAIN doc /\ doc[q.field] >= q.value
    [] q.op = "$lte" -> q.field \in DOMAIN doc /\ doc[q.field] <= q.value
    [] q.op = "$eq"  -> q.field \in DOMAIN doc /\ doc[q.field] = q.value
    [] q.op = "{}"   -> TRUE
    [] OTHER         -> FALSE

\* The rank of a document's field in a sort: a missing field sorts as null,
\* below every number (the numbers of the documents are positive).
SortKey(doc, f) == IF f \in DOMAIN doc THEN doc[f] ELSE 0

\* Whether a sorts strictly before b under the sort document (from key i on);
\* documents equal on every sort key keep their _id order.
RECURSIVE SortsBefore(_, _, _, _)
SortsBefore(a, b, sort, i) ==
  IF i > Len(sort) THEN a._id < b._id
  ELSE IF SortKey(a, sort[i].Key) = SortKey(b, sort[i].Key)
  THEN SortsBefore(a, b, sort, i + 1)
  ELSE IF sort[i].Value = 1 THEN SortKey(a, sort[i].Key) < SortKey(b, sort[i].Key)
       ELSE SortKey(a, sort[i].Key) > SortKey(b, sort[i].Key)

\* The documents of set S as the sequence ordered by the sort document.
Sorted(S, sort) ==
  [i \in 1..Cardinality(S) |->
     CHOOSE d \in S : Cardinality({e \in S : SortsBefore(e, d, sort, 1)}) = i - 1]

\* Collection.Find followed by cursor.All: the documents matching the filter,
\* in sort order, at most limit of them.
CollectionFind(c, filter, sort, limit) ==
  LET all == Sorted({d \in c.docs : Matches(d, filter)}, sort)
  IN  SubSeq(all, 1, IF limit < Len(all) THEN limit ELSE Len(all))

\* Collection.CountDocuments: the number of documents matching the filter.
CountDocuments(c, filter) == Cardinality({d \in c.docs : Matches(d, filter)})

\* ---------------------------------------------------- package mongo, find.go
\* Cursor{}: the zero value of the Cursor struct.
ZeroCursor ==
  [Previous |-> <<>>, Next |-> <<>>, HasPrevious |-> FALSE, HasNext |-> FALSE,
   Count |-> 0]

\* The first step of ensureMandatoryParams keeping the caller's collation.
defaultPaginatedFieldKeepCollation(p) ==
  IF p.PaginatedField = "" THEN [p EXCEPT !.PaginatedField = "_id"] ELSE p

\* ensureMandatoryParams, first step: an empty PaginatedField becomes "_id"
\* and the collation is dropped.
defaultPaginatedField(p) ==
  IF p.PaginatedField = ""
  THEN [p EXCEPT !.PaginatedField = "_id", !.Collation = "nil"]
  ELSE p

\* ensureMandatoryParams, second step: PaginatedFields is derived from
\* PaginatedField when empty, and otherwise made to end with "_id", with a
\* sort order of 1 appended for it.
defaultPaginatedFields(p) ==
  IF Len(p.PaginatedFields) = 0
  THEN [p EXCEPT !.PaginatedFields =
          IF p.PaginatedField = "_id" THEN <<"_id">>
          ELSE <<p.PaginatedField, "_id">>]
  ELSE IF p.PaginatedFields[Len(p.PaginatedFields)] # "_id"
  THEN [p EXCEPT !.PaginatedFields = Append(@, "_id"),
                 !.SortOrders = Append(@, 1)]
  ELSE p

\* ensureMandatoryParams, third step: empty SortOrders are filled from
\* SortAscending, one per paginated field.
defaultSortOrders(p) ==
  IF Len(p.SortOrders) = 0
  THEN [p EXCEPT !.SortOrders =
          [i \in 1..Len(p.PaginatedFields) |-> IF p.SortAscending THEN 1 ELSE -1]]
  ELSE p

\* ensureMandatoryParams fills in PaginatedField, PaginatedFields, SortOrders.
ensureMandatoryParams(p) ==
  defaultSortOrders(defaultPaginatedFields(defaultPaginatedField(p)))

\* Whether generateComparisonOps sorts position i ascending.
SortAsc(p, i) ==
  (p.SortOrders[i] = -1 /\ p.Previous # <<>>) \/ (p.SortOrders[i] = 1 /\ p.Previous = <<>>)

\* generateComparisonOps: the comparison operator of every sort position,
\* and p.SortOrders as the loop leaves it (it is written in place).
generateComparisonOps(p) ==
  [comparisonOps |-> [i \in 1..Len(p.SortOrders) |->
                        IF SortAsc(p, i) THEN "$gt" ELSE "$lt"],
   SortOrders    |-> [i \in 1..Len(p.SortOrders) |->
                        IF SortAsc(p, i) THEN 1 ELSE -1]]

\* The values of the elements of a decoded cursor, in order.
cursorValuesOf(d) == [i \in 1..Len(d) |-> d[i].Value]

\* parseCursor without the check of the decode error: an undecodable cursor
\* yields no cursor values and no error.
parseCursorIgnoringDecodeError(cursor, numPaginatedFields) ==
  IF cursor # <<>>
  THEN IF ~decodeCursor(cursor).err /\ Len(decodeCursor(cursor).d) # numPaginatedFields
       THEN [err |-> "expecting a cursor with n elements", cursorValues |-> <<>>]
       ELSE [err |-> "", cursorValues |-> cursorValuesOf(decodeCursor(cursor).d)]
  ELSE [err |-> "", cursorValues |-> <<>>]

\* parseCursor without the check of the number of elements.
parseCursorAnyLength(cursor, numPaginatedFields) ==
  IF cursor # <<>>
  THEN IF decodeCursor(cursor).err
       THEN [err |-> "decode failed", cursorValues |-> <<>>]
       ELSE [err |-> "", cursorValues |-> cursorValuesOf(decodeCursor(cursor).d)]
  ELSE [err |-> "", cursorValues |-> <<>>]

\* parseCursor after decodeCursor: the decode error, then the number of
\* elements, then the values.
checkParsed(parsedCursor, numPaginatedFields) ==
  IF parsedCursor.err
  THEN [err |-> "decode failed", cursorValues |-> <<>>]
  ELSE IF Len(parsedCursor.d) # numPaginatedFields
  THEN [err |-> IF numPaginatedFields = 1
                THEN "expecting a cursor with a single element"
                ELSE "expecting a cursor with n elements",
        cursorValues |-> <<>>]
  ELSE [err |-> "", cursorValues |-> cursorValuesOf(parsedCursor.d)]

\* parseCursor decodes a cursor and checks its number of elements.
parseCursor(cursor, numPaginatedFields) ==
  IF cursor # <<>>
  THEN checkParsed(decodeCursor(cursor), numPaginatedFields)
  ELSE [err |-> "", cursorValues |-> <<>>]

\* The first n entries of sequence s.
Prefix(s, n) == SubSeq(s, 1, n)

\* numPaginatedFields of BuildQueries.
NumPaginatedFields(p) ==
  IF Len(p.PaginatedFields) > 0 THEN Len(p.PaginatedFields) ELSE 1

\* An error return of BuildQueries; so is p.SortOrders as the call leaves it.
BuildFailed(kind, msg, so) ==
  [kind |-> kind, err |-> msg, queries |-> <<>>, sort |-> <<>>, SortOrders |-> so]

\* BuildQueries from the sort loop on: the sort document pairs every
\* paginated field with the sort order at its index.
BuildSort(p, g, queries) ==
  IF Len(g.SortOrders) < Len(p.PaginatedFields)
  THEN BuildFailed("panic", "index out of range", g.SortOrders)
  ELSE [kind |-> "", err |-> "", queries |-> queries,
        sort |-> [i \in 1..Len(p.PaginatedFields) |->
                    [Key |-> p.PaginatedFields[i], Value |-> g.SortOrders[i]]],
        SortOrders |-> g.SortOrders]

\* BuildQueries once the cursor query is generated.
BuildCursorQuery(p, g, cq) ==
  IF cq.err # ""
  THEN BuildFailed("error", cq.err, g.SortOrders)
  ELSE BuildSort(p, g, <<p.Query, cq.query>>)

\* BuildQueries once the comparison operators are generated: with a token
\* the cursor query is added to the caller's query.
BuildPagination(p, g, nextCursorValues, previousCursorValues) ==
  IF p.Next # <<>> \/ p.Previous # <<>>
  THEN BuildCursorQuery(p, g,
         GenerateCursorQuery(p.PaginatedFields, g.comparisonOps,
                             IF p.Next # <<>> THEN nextCursorValues
                             ELSE previousCursorValues))
  ELSE BuildSort(p, g, <<p.Query>>)

\* BuildQueries once both tokens are parsed.
BuildParsed(p, nextC, prevC) ==
  IF nextC.err # ""
  THEN BuildFailed("CursorError", "next cursor parse failed", p.SortOrders)
  ELSE IF prevC.err # ""
  THEN BuildFailed("CursorError", "previous cursor parse failed", p.SortOrders)
  ELSE BuildPagination(p, generateComparisonOps(p), nextC.cursorValues,
                       prevC.cursorValues)

\* BuildQueries after ensureMandatoryParams.
BuildChecked(p) ==
  IF p.Collection.isNil
  THEN BuildFailed("error", "Collection can't be nil", p.SortOrders)
  ELSE IF p.Limit <= 0
  THEN BuildFailed("error", "a limit of at least 1 is required", p.SortOrders)
  ELSE BuildParsed(p, parseCursor(p.Next, NumPaginatedFields(p)),
                   parseCursor(p.Previous, NumPaginatedFields(p)))

\* BuildQueries builds the queries and the sort document without executing
\* them.  SortOrders is p.SortOrders as the call leaves the backing array.
BuildQueries(p) == BuildChecked(ensureMandatoryParams(p))

\* The CountDocuments call executeCountQuery issues.
CountCall(queries, collation) ==
  [op |-> "count", filter |-> ListQuery("$and", queries), collation |-> collation]

\* executeCountQuery counting every document of the collection, whatever the
\* queries.
executeCountQueryUnfiltered(c, queries, collation) ==
  IF c.countErr # ""
  THEN [err |-> c.countErr, count |-> 0, io |-> <<CountCall(queries, collation)>>]
  ELSE [err |-> "", count |-> Cardinality(c.docs),
        io |-> <<CountCall(queries, collation)>>]

\* executeCountQuery reporting any error of CountDocuments as one of its own.
executeCountQueryWrapped(c, queries, collation) ==
  IF c.countErr # ""
  THEN [err |-> "count failed", count |-> 0, io |-> <<CountCall(queries, collation)>>]
  ELSE [err |-> "", count |-> CountDocuments(c, ListQuery("$and", queries)),
        io |-> <<CountCall(queries, collation)>>]

\* executeCountQuery counts the documents matching the queries; an error of
\* CountDocuments is returned as it is.
executeCountQuery(c, queries, collation) ==
  IF c.countErr # ""
  THEN [err |-> c.countErr, count |-> 0, io |-> <<CountCall(queries, collation)>>]
  ELSE [err |-> "", count |-> CountDocuments(c, ListQuery("$and", queries)),
        io |-> <<CountCall(queries, collation)>>]

\* The Find call of executeCursorQuery with the given limit option.
FindCall(query, sort, limit, collation) ==
  [op |-> "find", filter |-> ListQuery("$and", query), sort |-> sort,
   limit |-> limit, collation |-> collation]

\* The fields a results element of struct type decodes: the bson tags of the
\* struct and of the structs it inlines, at any depth.
StructFields(results) == Fields \cap (results.tags \cup results.inline \cup results.deep)

\* A document decoded into an element of the results slice: a raw document
\* is the document itself; a struct has the tagged fields, zero where the
\* document has none, and keeps its type when that type cannot be marshalled.
DecodeInto(results, doc) ==
  IF results.elem \in {"Raw", "RawPtr"} THEN doc
  ELSE IF results.unencodable
  THEN [f \in StructFields(results) |-> IF f \in DOMAIN doc THEN doc[f] ELSE 0]
         @@ [unencodable |-> TRUE]
  ELSE [f \in StructFields(results) |-> IF f \in DOMAIN doc THEN doc[f] ELSE 0]

\* cursor.All: the documents of the cursor decoded into the results slice,
\* replacing what it held.
All(results, docs) == [i \in 1..Len(docs) |-> DecodeInto(results, docs[i])]

\* Collection.Find with the given limit option, then cursor.All into results;
\* an error of Collection.Find is returned as it is, results untouched.
RunFind(c, query, sort, limit, collation, results) ==
  IF c.findErr # ""
  THEN [err |-> c.findErr, results |-> results.items,
        io |-> <<FindCall(query, sort, limit, collation)>>]
  ELSE [err |-> "",
        results |-> All(results, CollectionFind(c, ListQuery("$and", query), sort, limit)),
        io |-> <<FindCall(query, sort, limit, collation)>>]

\* executeCursorQuery asking for limit documents, without the extra one.
executeCursorQueryNoExtra(c, query, sort, limit, collation, results) ==
  RunFind(c, query, sort, limit, collation, results)

\* executeCursorQuery fetches limit + 1 documents in sort order.
executeCursorQuery(c, query, sort, limit, collation, results) ==
  RunFind(c, query, sort, limit + 1, collation, results)

\* The paginated fields the record has a value for, in order.
RECURSIVE PresentFields(_, _)
PresentFields(result, paginatedFields) ==
  IF paginatedFields = <<>> THEN <<>>
  ELSE IF Head(paginatedFields) \in DOMAIN result
  THEN <<Head(paginatedFields)>> \o PresentFields(result, Tail(paginatedFields))
  ELSE PresentFields(result, Tail(paginatedFields))

\* cursorData of generateCursor: one element per field that is present.
CursorData(result, fields) ==
  [k \in 1..Len(fields) |-> [Key |-> fields[k], Value |-> result[fields[k]]]]

\* generateCursor builds the cursor of one result from its paginated fields;
\* a field the record has no value for is left out.  It fails when the
\* result cannot be marshalled.
generateCursor(result, paginatedFields) ==
  IF "unencodable" \in DOMAIN result
  THEN [err |-> "marshal error", cursor |-> <<>>]
  ELSE [err |-> "",
        cursor |-> encodeCursor(CursorData(result, PresentFields(result, paginatedFields)))]

\* validate looking for the paginated fields in inlined structs at any depth.
validateDeep(results, paginatedFields) ==
  IF results.kind = "nil" THEN "ErrInvalidResults"
  ELSE IF results.kind # "slicePtr" THEN "ErrInvalidResults"
  ELSE IF results.elem \in {"Raw", "RawPtr"} THEN ""
  ELSE IF results.elem # "struct" THEN "ErrInvalidResults"
  ELSE IF \E i \in 1..Len(paginatedFields) :
            paginatedFields[i] \notin (results.tags \cup results.inline \cup results.deep)
       THEN "ErrPaginatedFieldNotFound"
       ELSE ""

\* validate checks the results argument and that every paginated field is a
\* bson tag of the element struct or of a struct it inlines.
validate(results, paginatedFields) ==
  IF results.kind = "nil" THEN "ErrInvalidResults"
  ELSE IF results.kind # "slicePtr" THEN "ErrInvalidResults"
  ELSE IF results.elem \in {"Raw", "RawPtr"} THEN ""
  ELSE IF results.elem # "struct" THEN "ErrInvalidResults"
  ELSE IF \E i \in 1..Len(paginatedFields) :
            paginatedFields[i] \notin (results.tags \cup results.inline)
       THEN "ErrPaginatedFieldNotFound"
       ELSE ""

\* hasMore of Find.
HasMore(p, fetched) == Len(fetched) > p.Limit

\* hasPrevious of Find.
HasPrevious(p, hasMore) == p.Next # <<>> \/ (p.Previous # <<>> /\ hasMore)

\* hasNext without the case of a previous token.
HasNextOnlyMore(p, hasMore) == hasMore

\* hasNext of Find.
HasNext(p, hasMore) == p.Previous # <<>> \/ hasMore

\* Find dropping the extra element fetched to see if there is another page.
DropExtra(p, fetched) ==
  IF HasMore(p, fetched) THEN Prefix(fetched, Len(fetched) - 1) ELSE fetched

\* Find leaving a page fetched in reverse as it was fetched.
CorrectOrderNone(p, kept) == kept

\* Find correcting the order of a page fetched in reverse.
CorrectOrder(p, kept) ==
  IF Len(kept) > 0 /\ p.Previous # <<>> THEN Reverse(kept) ELSE kept

\* A cursor of Find generated from the first record whatever the position.
CursorForFirst(p, resultsVal, flag, i) ==
  IF Len(resultsVal) > 0 /\ flag
  THEN generateCursor(resultsVal[1], p.PaginatedFields)
  ELSE [err |-> "", cursor |-> <<>>]

\* A cursor of Find: generated from the record only when there are results
\* and the flag is set.
CursorFor(p, resultsVal, flag, i) ==
  IF Len(resultsVal) > 0 /\ flag
  THEN generateCursor(resultsVal[i], p.PaginatedFields)
  ELSE [err |-> "", cursor |-> <<>>]

\* Find creating the response cursor from the two generated cursors.
Respond(fetched, resultsVal, previousCursor, nextCursor, hasPrevious, hasNext, count) ==
  IF previousCursor.err # "" \/ nextCursor.err # ""
  THEN [kind |-> "error", cursor |-> ZeroCursor,
        results |-> resultsVal \o SubSeq(fetched, Len(resultsVal) + 1, Len(fetched))]
  ELSE [kind |-> "",
        cursor |-> [Previous |-> previousCursor.cursor, HasPrevious |-> hasPrevious,
                    Next |-> nextCursor.cursor, HasNext |-> hasNext,
                    Count |-> count],
        results |-> resultsVal]

\* Find generating the cursors of the page resultsVal.
Cursors(p, fetched, resultsVal, hasPrevious, hasNext, count) ==
  Respond(fetched, resultsVal,
          CursorFor(p, resultsVal, hasPrevious, 1),
          CursorFor(p, resultsVal, hasNext, Len(resultsVal)),
          hasPrevious, hasNext, count)

\* The part of Find after a successful fetch: drops the extra element,
\* restores the order, generates the cursors.
Paginate(p, fetched, count) ==
  Cursors(p, fetched, CorrectOrder(p, DropExtra(p, fetched)),
          HasPrevious(p, HasMore(p, fetched)), HasNext(p, HasMore(p, fetched)),
          count)

\* An error return of Find: the zero Cursor; items is the caller's slice, io
\* the queries issued so far, so p.SortOrders as the call leaves it.
FindFailed(kind, items, io, so) ==
  [kind |-> kind, cursor |-> ZeroCursor, results |-> items, io |-> io,
   SortOrders |-> so]

\* Find once the page is computed.
FindPaged(cnt, bq, ex, pg) ==
  [kind |-> pg.kind, cursor |-> pg.cursor, results |-> pg.results,
   io |-> cnt.io \o ex.io, SortOrders |-> bq.SortOrders]

\* Find once the cursor query is executed.
FindExecuted(p, cnt, bq, ex) ==
  IF ex.err # ""
  THEN FindFailed(ex.err, ex.results, cnt.io \o ex.io, bq.SortOrders)
  ELSE FindPaged(cnt, bq, ex, Paginate(p, ex.results, cnt.count))

\* Find once the queries are built.
FindBuilt(p, results, cnt, bq) ==
  IF bq.err # ""
  THEN FindFailed(bq.kind, results.items, cnt.io, bq.SortOrders)
  ELSE FindExecuted(p, cnt, bq,
         executeCursorQuery(p.Collection, bq.queries, bq.sort, p.Limit,
                            p.Collation, results))

\* Find once the total is counted.
FindCounted(p, results, cnt) ==
  IF cnt.err # ""
  THEN FindFailed(cnt.err, results.items, cnt.io, p.SortOrders)
  ELSE FindBuilt(p, results, cnt, BuildQueries(p))

\* Find after ensureMandatoryParams: validates, then counts when CountTotal
\* is set.
FindValidated(p, results) ==
  IF validate(results, p.PaginatedFields) # ""
  THEN FindFailed(validate(results, p.PaginatedFields), results.items, <<>>,
                  p.SortOrders)
  ELSE FindCounted(p, results,
         IF p.CountTotal
         THEN executeCountQuery(p.Collection, <<p.Query>>, p.Collation)
         ELSE [err |-> "", count |-> 0, io |-> <<>>])

\* Find executes a paginated find: the returned error kind ("" for nil), the
\* Cursor, the caller's results slice after the call, the queries issued to
\* the collection in order, and the SortOrders backing array after the call.
Find(p, results) == FindValidated(ensureMandatoryParams(p), results)

\* Whether p.SortOrders after ensureMandatoryParams is still the slice the
\* caller passed: nothing was appended to it (a slice without spare capacity
\* is copied by append) and it was not replaced by the default orders.
KeepsSortOrdersSlice(p) ==
  /\ Len(p.SortOrders) > 0
  /\ IF Len(p.PaginatedFields) = 0 THEN TRUE
     ELSE p.PaginatedFields[Len(p.PaginatedFields)] = "_id"

\* The caller's SortOrders slice after a call that left out.SortOrders in the
\* slice it worked on.
SortOrdersAfter(p, out) ==
  IF KeepsSortOrdersSlice(p) /\ Len(out.SortOrders) >= Len(p.SortOrders)
  THEN SubSeq(out.SortOrders, 1, Len(p.SortOrders))
  ELSE p.SortOrders

\* ------------------------------------------------------------ the callers
\* bson.M{}: the filter that matches every document.
EmptyQuery == [op |-> "{}"]

\* The base filters callers paginate with.
Queries == {EmptyQuery, FieldQuery("name", "$eq", 1)}

\* All sequences of n sort orders, each 1 or -1.
Orders(n) == [1..n -> {1, -1}]

\* The sort parameters of FindParams a caller can pass: the single
\* PaginatedField with SortAscending, or PaginatedFields with SortOrders
\* (SortOrders may be left empty, SortAscending then gives the direction).
SortParams ==
  [PaginatedField : {"", "name"}, SortAscending : BOOLEAN,
   PaginatedFields : {<<>>}, SortOrders : {<<>>}]
  \cup
  {[PaginatedField |-> "", SortAscending |-> asc, PaginatedFields |-> f, SortOrders |-> o] :
     asc \in {TRUE},
     f \in {<<"name">>},
     o \in Orders(1)}
  \cup
  {[PaginatedField |-> "", SortAscending |-> TRUE, PaginatedFields |-> <<"data", "name">>,
    SortOrders |-> o] : o \in {<<1, -1>>, <<1, 1>>}}
  \cup
  {[PaginatedField |-> "", SortAscending |-> FALSE, PaginatedFields |-> <<"name">>,
    SortOrders |-> <<>>]}

\* The results argument of the callers: a pointer to a []*MongoItem.
ItemResults ==
  [kind |-> "slicePtr", elem |-> "struct",
   tags |-> {"_id", "name", "data", "createdAt"}, inline |-> {"sample"},
   deep |-> {}, unencodable |-> FALSE, items |-> <<>>]

\* Strings that are not cursors: a padding character, a truncated group,
\* and valid base64 of bytes that are not a BSON document.
BadTokens == {<<88, 88, 61>>, <<98>>, EncodeToString(<<1, 2, 3>>)}

\* Well-formed cursors of one, two and three elements a caller may hold from
\* another query.
ForeignTokens ==
  {encodeCursor(<<[Key |-> "_id", Value |-> v]>>) : v \in {1, MaxId}}
  \cup
  {encodeCursor(<<[Key |-> "name", Value |-> v[1]], [Key |-> "_id", Value |-> v[2]]>>) :
     v \in {<<1, 1>>, <<MaxVal, MaxId>>}}
  \cup
  {encodeCursor(<<[Key |-> "data", Value |-> v[1]], [Key |-> "name", Value |-> v[2]],
                  [Key |-> "_id", Value |-> v[3]]>>) :
     v \in {<<1, 1, 1>>, <<MaxVal, MaxVal, MaxId>>}}

\* A well-formed cursor of three elements.
LongToken ==
  encodeCursor(<<[Key |-> "data", Value |-> MaxVal], [Key |-> "name", Value |-> MaxVal],
                 [Key |-> "_id", Value |-> MaxId]>>)

VARIABLES
  db,       \* the documents of the collection
  params,   \* the filter, limit and sort parameters the caller paginates with
  last,     \* the last Find call: its tokens and limit, and what it returned
  origin,   \* the records of the page whose Next token led to the page that
            \* the last call left (by its Next token) or went back from (by
            \* that page's Previous token)
  seen,     \* the records returned since the last first-page call
  fwd       \* TRUE while every call since a first-page call followed Next

vars == <<db, params, last, origin, seen, fwd>>

NoCall == [op |-> "none"]
NoPage == [set |-> FALSE, results |-> <<>>]

\* The FindParams of a call of the caller.
FindParamsOf(next, previous, limit, countTotal) ==
  [Collection      |-> [isNil |-> FALSE, docs |-> db, countErr |-> "",
                        findErr |-> ""],
   Query           |-> params.Query,
   Limit           |-> limit,
   SortAscending   |-> params.sort.SortAscending,
   PaginatedField  |-> params.sort.PaginatedField,
   Collation       |-> "en",
   Next            |-> next,
   Previous        |-> previous,
   CountTotal      |-> countTotal,
   PaginatedFields |-> params.sort.PaginatedFields,
   SortOrders      |-> params.sort.SortOrders]

\* The record of a call: what was passed and what Find returned.
CallOf(op, next, previous, limit, countTotal) ==
  [op |-> op, Next |-> next, Previous |-> previous, Limit |-> limit,
   CountTotal |-> countTotal,
   out |-> Find(FindParamsOf(next, previous, limit, countTotal), ItemResults)]

\* A call that neither continues a forward traversal nor goes back a page.
Record(call) ==
  /\ last' = call
  /\ origin' = NoPage
  /\ seen' = <<>>
  /\ fwd' = FALSE
  /\ UNCHANGED <<db, params>>

\* The collections the caller may face: one document per _id.  Find reads no
\* field outside the filter and the sort, so the data field varies only when
\* it is a sort field.
Collections(sort) ==
  LET dataVals == IF \E j \in 1..Len(sort.PaginatedFields) :
                        sort.PaginatedFields[j] = "data"
                  THEN {1, 2} ELSE {1}
  IN  {{[_id |-> i, name |-> n[i], data |-> d[i]] : i \in Ids} :
         n \in [Ids -> Vals], d \in [Ids -> dataVals]}

Init ==
  /\ params \in [Query : Queries, Limit : 1..MaxLimit, sort : SortParams]
  /\ db \in Collections(params.sort)
  /\ last = NoCall
  /\ origin = NoPage
  /\ seen = <<>>
  /\ fwd = FALSE

\* Find without token: the first page, with or without the total count.  Find
\* keeps nothing between calls and the collection is static, so a first page
\* asked for later is the first page asked for at the start.
FindFirst ==
  /\ last.op = "none"
  /\ \E countTotal \in BOOLEAN :
       LET call == CallOf("first", <<>>, <<>>, params.Limit, countTotal)
       IN  /\ last' = call
           /\ origin' = NoPage
           /\ seen' = call.out.results
           /\ fwd' = (call.out.kind = "")
           /\ UNCHANGED <<db, params>>

\* Find with the Next token of the last page.
FindNext ==
  /\ last.op # "none"
  /\ last.out.cursor.Next # <<>>
  /\ LET call == CallOf("next", last.out.cursor.Next, <<>>, params.Limit, TRUE)
     IN  /\ last' = call
         /\ origin' = [set |-> TRUE, results |-> last.out.results]
         /\ seen' = IF fwd THEN seen \o call.out.results ELSE <<>>
         /\ fwd' = (fwd /\ call.out.kind = "")
         /\ UNCHANGED <<db, params>>

\* Find with the Previous token of the last page.
FindPrevious ==
  /\ last.op # "none"
  /\ last.out.cursor.Previous # <<>>
  /\ last' = CallOf("previous", <<>>, last.out.cursor.Previous, params.Limit, TRUE)
  /\ origin' = IF last.op = "next" THEN origin ELSE NoPage
  /\ seen' = <<>>
  /\ fwd' = FALSE
  /\ UNCHANGED <<db, params>>

\* Find with both tokens of the last page.
FindBoth ==
  /\ last.op # "none"
  /\ last.out.cursor.Next # <<>>
  /\ last.out.cursor.Previous # <<>>
  /\ Record(CallOf("both", last.out.cursor.Next, last.out.cursor.Previous,
                   params.Limit, TRUE))

\* Find with a token that no page of this traversal returned.  What Find
\* does with it does not depend on the calls before, so the call is made as
\* the first call of the caller.
FindToken ==
  /\ last.op = "none"
  /\ \E tok \in BadTokens \cup ForeignTokens, asNext \in BOOLEAN, countTotal \in BOOLEAN :
       /\ (tok \in ForeignTokens => countTotal)
       /\ Record(CallOf("token", IF asNext THEN tok ELSE <<>>,
                        IF asNext THEN <<>> ELSE tok, params.Limit, countTotal))

\* Find with a limit below 1: without token, with a string that is no cursor
\* and with a cursor of three elements; made as the first call for the same
\* reason.
FindBadLimit ==
  /\ last.op = "none"
  /\ \E call \in {<<0, <<>>>>, <<-1, <<>>>>, <<0, <<88, 88, 61>>>>, <<0, LongToken>>},
        countTotal \in BOOLEAN :
       Record(CallOf("badlimit", call[2], <<>>, call[1], countTotal))

Next ==
  \/ FindFirst
  \/ FindNext
  \/ FindPrevious
  \/ FindBoth
  \/ FindToken
  \/ FindBadLimit

Spec == Init /\ [][Next]_vars

\* ------------------------------------------------------------- properties
\* The documents matching the caller's filter.
Matching == {d \in db : Matches(d, params.Query)}

\* The caller's parameters after ensureMandatoryParams.
Normalized == ensureMandatoryParams(FindParamsOf(<<>>, <<>>, params.Limit, FALSE))

\* The declared sort: the normalized fields with their declared directions.
DeclaredSort ==
  [i \in 1..Len(Normalized.PaginatedFields) |->
     [Key |-> Normalized.PaginatedFields[i], Value |-> Normalized.SortOrders[i]]]

\* The matching documents in the declared order.
InOrder == Sorted(Matching, DeclaredSort)

\* The number of fields of the normalized sort.
NumFields == Len(Normalized.PaginatedFields)

NoDuplicates(s) == \A i, j \in 1..Len(s) : s[i] = s[j] => i = j
Range(s) == {s[i] : i \in 1..Len(s)}
IsPrefix(s, t) == Len(s) <= Len(t) /\ s = SubSeq(t, 1, Len(s))
IsRun(s, t) == \E k \in 0..(Len(t) - Len(s)) : s = SubSeq(t, k + 1, k + Len(s))

\* The last call returned without error.
Succeeded == last.op # "none" /\ last.out.kind = ""

\* What the bounded fetch of the last call returned, from the query it issued.
Fetched ==
  LET q == last.out.io[Len(last.out.io)]
  IN  CollectionFind([docs |-> db], q.filter, q.sort, q.limit)

\* A token that is not valid base64url or does not decode to a document.
Undecodable(tok) == tok # <<>> /\ decodeCursor(tok).err

\* A token that decodes to a number of pairs other than n.
WrongArity(tok, n) ==
  tok # <<>> /\ ~decodeCursor(tok).err /\ Len(decodeCursor(tok).d) # n

\* C1: a forward traversal (first page, then Next tokens) over one user field
\* plus _id, or _id alone, never returns a record twice, can go on while
\* HasNext is true, and has returned every matching record when HasNext is
\* false.
C1_Exhaustive ==
  (fwd /\ NumFields <= 2) =>
    /\ NoDuplicates(seen)
    /\ last.out.cursor.HasNext => (last.out.cursor.Next # <<>> /\ last.out.results # <<>>)
    /\ ~last.out.cursor.HasNext => Range(seen) = Matching

\* C2: the page reached with the Previous token of page N+1 holds exactly the
\* records of page N, the page whose Next token led to page N+1, in the same
\* order.
C2_Symmetry ==
  (Succeeded /\ last.op = "previous" /\ origin.set) => last.out.results = origin.results

\* C3: with records that share the value of the single user sort field, the
\* forward traversal returns the matching records in the order given by
\* (field value, _id), each once, and a page reached with a Previous token is
\* a run of that order.
C3_TieBreak ==
  (NumFields = 2 /\ \E d, e \in Matching : d # e /\ d.name = e.name) =>
    /\ fwd => IsPrefix(seen, InOrder)
    /\ (fwd /\ ~last.out.cursor.HasNext) => seen = InOrder
    /\ (Succeeded /\ last.op = "previous") => IsRun(last.out.results, InOrder)

\* C4: with two user sort fields plus the appended _id, the pages of a forward
\* traversal follow the order by first field, second field, then _id, and
\* together hold every matching record exactly once.
C4_MultiField ==
  (fwd /\ NumFields >= 3) =>
    /\ IsPrefix(seen, InOrder)
    /\ ~last.out.cursor.HasNext => seen = InOrder

\* C5: on a successful Find with at most one token, HasPrevious and HasNext
\* are the stated functions of the supplied token and of hasMore, whether the
\* fetch returned more than Limit records.
C5_HasFlags ==
  (Succeeded /\ ~(last.Next # <<>> /\ last.Previous # <<>>)) =>
    LET hasMore == Len(Fetched) > last.Limit
    IN  /\ last.out.cursor.HasPrevious =
             (last.Next # <<>> \/ (last.Previous # <<>> /\ hasMore))
        /\ last.out.cursor.HasNext =
             (\/ last.Previous # <<>>
              \/ (last.Next # <<>> /\ hasMore)
              \/ (last.Next = <<>> /\ last.Previous = <<>> /\ hasMore))

\* A successful call with a Previous token whose fetch returned more than
\* Limit records.
C5_Witness ==
  /\ Succeeded
  /\ last.Previous # <<>> /\ last.Next = <<>>
  /\ Len(Fetched) > last.Limit
  /\ last.out.cursor.HasPrevious /\ last.out.cursor.HasNext

\* C6: on every successful Find a token is non-empty exactly when its flag is
\* true, also when the fetch returned no record.
C6_TokenIffFlag ==
  Succeeded =>
    /\ (last.out.cursor.Next # <<>>) = last.out.cursor.HasNext
    /\ (last.out.cursor.Previous # <<>>) = last.out.cursor.HasPrevious

\* C7: a successful first-page Find with Limit at least the number S of
\* matching records returns all S records, both flags false and both tokens
\* empty; with Limit = S - 1 it returns HasNext true.
C7_Boundary ==
  (Succeeded /\ last.op = "first") =>
    LET S == Cardinality(Matching)
    IN  /\ last.Limit >= S =>
             /\ Len(last.out.results) = S
             /\ Range(last.out.results) = Matching
             /\ ~last.out.cursor.HasNext /\ ~last.out.cursor.HasPrevious
             /\ last.out.cursor.Next = <<>> /\ last.out.cursor.Previous = <<>>
        /\ (S >= 2 /\ last.Limit = S - 1) => last.out.cursor.HasNext

\* A first page that holds all matching records, as many as the limit.
C7_Witness ==
  /\ Succeeded /\ last.op = "first"
  /\ Cardinality(Matching) = last.Limit
  /\ Len(last.out.results) = last.Limit
  /\ ~last.out.cursor.HasNext

C10_ValidationBeforeIO ==
  (/\ last.op # "none"
   /\ \/ last.Limit <= 0
      \/ Undecodable(last.Next) \/ Undecodable(last.Previous)
      \/ WrongArity(last.Next, NumFields) \/ WrongArity(last.Previous, NumFields)) =>
    /\ last.out.kind # ""
    /\ last.out.io = <<>>

\* The smaller of two numbers.
Min(a, b) == IF a < b THEN a ELSE b

\* The entries of the queries the last call issued, by operation.
IssuedOf(op) == {i \in 1..Len(last.out.io) : last.out.io[i].op = op}

\* C12: with CountTotal set, Count of a successful Find is the number of
\* records matching the caller's filter alone, whatever token was supplied,
\* and the one count query is issued on that filter; without CountTotal no
\* count query is issued and Count is 0.
C12_TotalCount ==
  /\ (Succeeded /\ last.CountTotal) =>
        /\ last.out.cursor.Count = Cardinality(Matching)
        /\ Cardinality(IssuedOf("count")) = 1
        /\ last.out.io[1].op = "count"
        /\ last.out.io[1].filter = ListQuery("$and", <<params.Query>>)
  /\ (last.op # "none" /\ ~last.CountTotal) =>
        /\ IssuedOf("count") = {}
        /\ last.out.kind = "" => last.out.cursor.Count = 0

\* A page reached with a token that holds fewer records than the count.
C12_Witness ==
  /\ Succeeded /\ last.op = "next" /\ last.CountTotal
  /\ last.out.cursor.Count = Cardinality(Matching)
  /\ Len(last.out.results) < last.out.cursor.Count
  /\ Cardinality(Matching) < Cardinality(db)

\* The caller gave no sort field.
NoSortField == params.sort.PaginatedField = "" /\ params.sort.PaginatedFields = <<>>

\* The sort document of the fetch the last call issued.
FetchSort == last.out.io[Len(last.out.io)].sort

\* C15 as stated: without a sort field Find sorts on _id only, ascending, and
\* passes no collation to the count query and to the fetch.
C15_DefaultAscending ==
  (last.op # "none" /\ NoSortField) =>
    /\ \A i \in 1..Len(last.out.io) : last.out.io[i].collation = "nil"
    /\ (Succeeded /\ last.Previous = <<>>) =>
          FetchSort = <<[Key |-> "_id", Value |-> 1]>>

\* C15: without a sort field Find sorts on _id only, ascending when
\* SortAscending is set and descending otherwise, and passes no collation to
\* the count query and to the fetch.
C15_DefaultSort ==
  (last.op # "none" /\ NoSortField) =>
    /\ \A i \in 1..Len(last.out.io) : last.out.io[i].collation = "nil"
    /\ (Succeeded /\ last.Previous = <<>>) =>
          FetchSort = <<[Key |-> "_id",
                         Value |-> IF params.sort.SortAscending THEN 1 ELSE -1]>>

\* A first page without sort field and with SortAscending unset: counted and
\* fetched without collation, in descending _id order.
C15_Witness ==
  /\ Succeeded /\ last.op = "first" /\ last.CountTotal
  /\ NoSortField /\ ~params.sort.SortAscending
  /\ Len(last.out.io) = 2
  /\ Len(last.out.results) = 2
  /\ last.out.results[1]._id > last.out.results[2]._id

\* The positions of _id in the normalized sort fields.
IdPositions ==
  {i \in 1..Len(Normalized.PaginatedFields) : Normalized.PaginatedFields[i] = "_id"}

\* The caller's sort fields are given and do not end with _id.
IdAppended ==
  /\ params.sort.PaginatedFields # <<>>
  /\ params.sort.PaginatedFields[Len(params.sort.PaginatedFields)] # "_id"

\* C16: the normalized sort fields end with _id and hold it once, with one
\* sort order per field; an appended _id has the direction of the traversal,
\* the direction of the first sort field.
C16_Tiebreaker ==
  /\ IdPositions = {NumFields}
  /\ Len(Normalized.SortOrders) = NumFields
  /\ IdAppended => Normalized.SortOrders[NumFields] = Normalized.SortOrders[1]

\* Whether the records of sequence s follow the declared order.
InDeclaredOrder(s) ==
  \A i, j \in 1..Len(s) : i < j => SortsBefore(s[i], s[j], DeclaredSort, 1)

\* C19: the records of every successful Find are in the declared sort order,
\* whatever token was supplied.
C19_DeclaredOrder == Succeeded => InDeclaredOrder(last.out.results)

\* A page of two records reached with a Previous token, fetched in the
\* reversed order and returned in the declared order.
C19_Witness ==
  /\ Succeeded /\ last.op = "previous"
  /\ Len(last.out.results) = 2
  /\ InDeclaredOrder(last.out.results)
  /\ last.out.results = Reverse(Prefix(Fetched, 2))

\* The position a token encodes, as a record of the sort fields.
Position(tok) ==
  [f \in {decodeCursor(tok).d[i].Key : i \in 1..Len(decodeCursor(tok).d)} |->
     (CHOOSE e \in Range(decodeCursor(tok).d) : e.Key = f).Value]

\* The matching records strictly beyond the position of the supplied token
\* in the direction of the traversal; all of them without token.
Beyond ==
  IF last.Next # <<>>
  THEN {d \in Matching : SortsBefore(Position(last.Next), d, DeclaredSort, 1)}
  ELSE IF last.Previous # <<>>
  THEN {d \in Matching : SortsBefore(d, Position(last.Previous), DeclaredSort, 1)}
  ELSE Matching

\* C20: the fetch of a successful Find with at most one token asks for
\* Limit + 1 records, the page holds min(Limit, n) records for n the number of
\* matching records strictly beyond the token's position, and the records of
\* the page are the first Limit the fetch returned.
C20_PageSize ==
  (Succeeded /\ ~(last.Next # <<>> /\ last.Previous # <<>>)) =>
    /\ last.out.io[Len(last.out.io)].limit = last.Limit + 1
    /\ Len(last.out.results) = Min(last.Limit, Cardinality(Beyond))
    /\ Range(last.out.results) = Range(Prefix(Fetched, Min(last.Limit, Len(Fetched))))

\* ------------------------------------------------------------ cursor codec
\* The int32 values of cursor data: the extremes, zero, values with a zero
\* byte, with a byte of all ones, and negative ones.
CodecVals == {-2147483647 - 1, -1, 0, 255, 256, 2147483647}

\* The elements of cursor data: a field name and a value.
Pairs == [Key : Fields, Value : CodecVals]

\* The cursor data of at most MaxPairs elements, repeated fields included.
CursorDatas == UNION {[1..n -> Pairs] : n \in 0..MaxPairs}

\* A call of the codec that has not run yet.
InitCodec ==
  /\ db = {}
  /\ params \in {[P |-> d] : d \in CursorDatas}
  /\ last = NoCall
  /\ origin = NoPage
  /\ seen = <<>>
  /\ fwd = FALSE

\* encodeCursor applied to the cursor data.
EncodeCursor ==
  /\ last.op = "none"
  /\ last' = [op |-> "encode", token |-> encodeCursor(params.P)]
  /\ UNCHANGED <<db, params, origin, seen, fwd>>

\* decodeCursor applied to the token encodeCursor returned.
DecodeCursor ==
  /\ last.op = "encode"
  /\ last' = [op |-> "decode", token |-> last.token, out |-> decodeCursor(last.token)]
  /\ UNCHANGED <<db, params, origin, seen, fwd>>

NextCodec == EncodeCursor \/ DecodeCursor

SpecCodec == InitCodec /\ [][NextCodec]_vars

\* C14: decodeCursor of the token encodeCursor returns for cursor data P
\* returns P, the same elements in the same order, without error, and the
\* token holds only characters of the URL-safe base64 alphabet, no padding.
C14_RoundTrip ==
  /\ last.op \in {"encode", "decode"} =>
        \A i \in 1..Len(last.token) :
          last.token[i] \in (65..90) \cup (97..122) \cup (48..57) \cup {45, 95}
  /\ last.op = "decode" => ~last.out.err /\ last.out.d = params.P

\* Cursor data of three elements with a repeated field and a negative value,
\* whose token ends with a group of fewer than four characters, decoded.
C14_Witness ==
  /\ last.op = "decode"
  /\ Len(params.P) = 3
  /\ params.P[1].Key = params.P[3].Key
  /\ params.P[2].Value < 0
  /\ params.P[1].Value # params.P[3].Value
  /\ Len(last.token) % 4 # 0
  /\ last.out.d = params.P

\* ------------------------------------------- results arguments and stores
\* Errors a store may return from CountDocuments and Find.
StoreErrors == {"context deadline exceeded", "no reachable servers"}

\* An element left in the caller's slice by an earlier use.
Stale == <<[_id |-> 0, name |-> 0, data |-> 0]>>

\* Results arguments that are no pointer to a slice: nil, a struct value, a
\* pointer to a struct.
NoSliceResults ==
  {[kind |-> k, elem |-> "struct", tags |-> {}, inline |-> {}, deep |-> {},
    unencodable |-> FALSE, items |-> <<>>] : k \in {"nil", "value", "structPtr"}}

\* Pointers to slices of raw documents, of pointers to them and of pointers
\* to bool.
RawResults ==
  {[kind |-> "slicePtr", elem |-> e, tags |-> {}, inline |-> {}, deep |-> {},
    unencodable |-> FALSE, items |-> <<>>] : e \in {"Raw", "RawPtr", "boolPtr"}}

\* Pointers to slices of structs: MongoItem, empty or holding an element; a
\* struct without the name tag; one with name in an inlined struct; one with
\* name in a struct inlined by an inlined struct; and a MongoItem whose
\* marshalling fails.
StructResults ==
  {ItemResults, [ItemResults EXCEPT !.items = Stale],
   [ItemResults EXCEPT !.tags = {"_id", "data"}, !.inline = {}],
   [ItemResults EXCEPT !.tags = {"_id"}, !.inline = {"name", "data"}],
   [ItemResults EXCEPT !.tags = {"_id"}, !.inline = {"data"}, !.deep = {"name"}],
   [ItemResults EXCEPT !.unencodable = TRUE, !.items = Stale]}

ResultsArgs == NoSliceResults \cup RawResults \cup StructResults

\* The FindParams of a call on a store that may fail.
FindParamsWith(countErr, findErr, next, previous, countTotal) ==
  [FindParamsOf(next, previous, params.Limit, countTotal) EXCEPT
     !.Collection = [isNil |-> FALSE, docs |-> db, countErr |-> countErr,
                     findErr |-> findErr]]

\* The record of such a call: what was passed and what Find returned.
CallWith(op, results, countErr, findErr, next, previous, countTotal) ==
  [op |-> op, Next |-> next, Previous |-> previous, Limit |-> params.Limit,
   CountTotal |-> countTotal, results |-> results,
   countErr |-> countErr, findErr |-> findErr,
   out |-> Find(FindParamsWith(countErr, findErr, next, previous, countTotal), results)]

\* The sort parameters of these callers: by name, by _id, by data and name.
ArgSorts ==
  {[PaginatedField |-> "name", SortAscending |-> TRUE, PaginatedFields |-> <<>>,
    SortOrders |-> <<>>],
   [PaginatedField |-> "", SortAscending |-> TRUE, PaginatedFields |-> <<>>,
    SortOrders |-> <<>>],
   [PaginatedField |-> "", SortAscending |-> TRUE,
    PaginatedFields |-> <<"data", "name">>, SortOrders |-> <<1, 1>>]}

\* Collections in which a document may have no name field (n[i] = 0).
SparseCollections ==
  {{IF n[i] = 0 THEN [_id |-> i, data |-> 1] ELSE [_id |-> i, name |-> n[i], data |-> 1] :
      i \in Ids} : n \in [Ids -> {0} \cup Vals]}

\* The cursors an earlier page ending or starting at one of the first two
\* documents gave.
PageTokens ==
  {generateCursor(d, ensureMandatoryParams(FindParamsOf(<<>>, <<>>, 1, FALSE)).PaginatedFields).cursor :
     d \in {e \in db : e._id <= 2}}

InitArgs ==
  /\ params \in [Query : {EmptyQuery}, Limit : 1..MaxLimit, sort : ArgSorts]
  /\ db \in SparseCollections
  /\ last = NoCall
  /\ origin = NoPage
  /\ seen = <<>>
  /\ fwd = FALSE

\* Find on a healthy store into one of the results arguments, without token
\* or with a cursor as Next or as Previous.
FindInto ==
  /\ last.op = "none"
  /\ \E results \in ResultsArgs, countTotal \in BOOLEAN,
        tok \in {<<>>} \cup PageTokens, asNext \in BOOLEAN :
       /\ (tok = <<>> => asNext)
       /\ Record(CallWith("into", results, "", "", IF asNext THEN tok ELSE <<>>,
                          IF asNext THEN <<>> ELSE tok, countTotal))

\* Find on a store of which CountDocuments, Find or both fail.
FindStoreDown ==
  /\ last.op = "none"
  /\ \E countErr \in {""} \cup StoreErrors, findErr \in {""} \cup StoreErrors,
        countTotal \in BOOLEAN, stale \in BOOLEAN :
       /\ countErr # "" \/ findErr # ""
       /\ Record(CallWith("down", IF stale THEN [ItemResults EXCEPT !.items = Stale]
                                    ELSE ItemResults,
                          countErr, findErr, <<>>, <<>>, countTotal))

NextArgs == FindInto \/ FindStoreDown

SpecArgs == InitArgs /\ [][NextArgs]_vars

\* Find returned an error.
Failed == last.op # "none" /\ last.out.kind # ""

\* C11: whenever Find returns an error, the Cursor is the zero value and the
\* caller's results slice is as it was before the call.
C11_NoPartialSuccess ==
  Failed => last.out.cursor = ZeroCursor /\ last.out.results = last.results.items

\* The count query of the call failed.
CountFailed == last.op = "down" /\ last.CountTotal /\ last.countErr # ""

\* The count query did not fail and the fetch query failed.
FetchFailed == last.op = "down" /\ ~CountFailed /\ last.findErr # ""

\* C13: when the count query fails Find returns its error and issues no
\* fetch; when the fetch fails Find returns its error; each query is issued
\* at most once.
C13_StoreFailure ==
  /\ CountFailed =>
        /\ last.out.kind = last.countErr
        /\ Cardinality(IssuedOf("count")) = 1
        /\ IssuedOf("find") = {}
  /\ FetchFailed =>
        /\ last.out.kind = last.findErr
        /\ Cardinality(IssuedOf("find")) = 1
        /\ Cardinality(IssuedOf("count")) = IF last.CountTotal THEN 1 ELSE 0
  /\ last.op # "none" =>
        Cardinality(IssuedOf("count")) <= 1 /\ Cardinality(IssuedOf("find")) <= 1

\* A call whose count succeeded and whose fetch failed with an error other
\* than the one CountDocuments would have returned.
C13_Witness ==
  /\ FetchFailed /\ last.CountTotal
  /\ last.countErr = ""
  /\ last.out.kind = "no reachable servers"
  /\ Len(last.out.io) = 2

\* The normalized sort fields the element struct of the results argument has
\* no bson tag for, in the struct itself or in a struct it inlines.
Untagged ==
  {f \in Range(Normalized.PaginatedFields) :
     f \notin last.results.tags \cup last.results.inline}

\* C17: into a slice of structs Find returns ErrPaginatedFieldNotFound,
\* before any query, exactly when a normalized sort field is no bson tag of
\* the struct or of a struct it inlines one level deep; into a slice of raw
\* documents the check is skipped and the call goes on to the queries.
C17_StaticValidation ==
  (last.op = "into" /\ last.results.kind = "slicePtr") =>
    /\ last.results.elem = "struct" =>
          /\ Untagged # {} =>
                last.out.kind = "ErrPaginatedFieldNotFound" /\ last.out.io = <<>>
          /\ Untagged = {} =>
                last.out.kind \notin {"ErrPaginatedFieldNotFound", "ErrInvalidResults"}
    /\ last.results.elem \in {"Raw", "RawPtr"} =>
          /\ last.out.kind \notin {"ErrPaginatedFieldNotFound", "ErrInvalidResults"}
          /\ (last.Next = <<>> /\ last.Previous = <<>>) => IssuedOf("find") # {}

\* A call sorting by name into a slice of structs that have the name tag two
\* levels deep only, rejected before any query, count included.
C17_Witness ==
  /\ last.op = "into" /\ last.CountTotal
  /\ last.results.elem = "struct"
  /\ "name" \in last.results.deep
  /\ Untagged = {"name"}
  /\ last.out.kind = "ErrPaginatedFieldNotFound"
  /\ last.out.io = <<>>

\* The fields of a returned token, in order (none for no token).
TokenFields(tok) ==
  IF tok = <<>> THEN <<>>
  ELSE [i \in 1..Len(decodeCursor(tok).d) |-> decodeCursor(tok).d[i].Key]

\* The record lacks one of the normalized sort fields.
LacksSortField(r) == \E f \in Range(Normalized.PaginatedFields) : f \notin DOMAIN r

\* C18: a successful Find built no token from a boundary record that lacks a
\* sort field, and every token it returned holds every sort field.
C18_MissingSortField ==
  Succeeded =>
    /\ last.out.cursor.Next # <<>> =>
          /\ ~LacksSortField(last.out.results[Len(last.out.results)])
          /\ TokenFields(last.out.cursor.Next) = Normalized.PaginatedFields
    /\ last.out.cursor.Previous # <<>> =>
          /\ ~LacksSortField(last.out.results[1])
          /\ TokenFields(last.out.cursor.Previous) = Normalized.PaginatedFields

\* ------------------------------------------------- the cursor range query
\* The paginated fields of a cursor query: none, and the lists that
\* ensureMandatoryParams produces for no, one and two sort fields.
QueryFields == {<<>>, <<"_id">>, <<"name", "_id">>, <<"data", "name", "_id">>}

\* The operators a caller may pass: the two accepted ones and another one.
QueryOps == {"$lt", "$gt", "$eq"}

\* The sequences over set S of at most three elements.
UpTo3(S) == UNION {[1..n -> S] : n \in 0..3}

\* The arguments of a call of GenerateCursorQuery that has not run yet.
InitQuery ==
  /\ db = {}
  /\ params \in [paginatedFields : QueryFields, comparisonOps : UpTo3(QueryOps),
                  cursorFieldValues : UpTo3(Ids)]
  /\ last = NoCall
  /\ origin = NoPage
  /\ seen = <<>>
  /\ fwd = FALSE

\* GenerateCursorQuery applied to the arguments.
GenerateQuery ==
  /\ last.op = "none"
  /\ last' = [op |-> "query",
              out |-> GenerateCursorQuery(params.paginatedFields, params.comparisonOps,
                                          params.cursorFieldValues)]
  /\ UNCHANGED <<db, params, origin, seen, fwd>>

NextQuery == GenerateQuery

SpecQuery == InitQuery /\ [][NextQuery]_vars

\* The records a cursor query is evaluated on.
QueryDocs == [_id : Ids, name : Ids, data : Ids]

\* a CMP b for the comparison operator op.
Cmp(op, a, b) == IF op = "$gt" THEN a > b ELSE a < b

\* The lexicographic comparison from field i on: field i compares strictly,
\* or is equal and the fields after it compare lexicographically.
RECURSIVE LexAccepts(_, _, _, _, _)
LexAccepts(doc, fields, ops, values, i) ==
  IF i > Len(fields) THEN FALSE
  ELSE \/ Cmp(ops[i], doc[fields[i]], values[i])
       \/ doc[fields[i]] = values[i] /\ LexAccepts(doc, fields, ops, values, i + 1)

\* GenerateCursorQuery returned a query for n fields.
Generated(n) ==
  last.op = "query" /\ last.out.err = "" /\ Len(params.paginatedFields) = n

\* The query accepts exactly the records the lexicographic comparison accepts.
IsLexicographic ==
  \A doc \in QueryDocs :
    Matches(doc, last.out.query) <=>
      LexAccepts(doc, params.paginatedFields, params.comparisonOps,
                 params.cursorFieldValues, 1)

\* C21: for three sort fields the query of GenerateCursorQuery accepts a
\* record if and only if the lexicographic comparison of its sort fields
\* with the cursor values, by the operators, accepts it.
C21_Lexicographic == Generated(3) => IsLexicographic

\* C22: for two sort fields the query of GenerateCursorQuery accepts a record
\* if and only if f1 CMP1 v1, or f1 = v1 and f2 CMP2 v2, each operator being
\* the one of its own field; it never accepts the cursor record itself.
C22_TwoFields ==
  Generated(2) =>
    /\ IsLexicographic
    /\ \A doc \in QueryDocs :
         (doc.name = params.cursorFieldValues[1] /\ doc._id = params.cursorFieldValues[2])
           => ~Matches(doc, last.out.query)

\* The error GenerateCursorQuery is to return for the arguments ("" for none).
ExpectedErr ==
  IF Len(params.paginatedFields) # Len(params.cursorFieldValues)
  THEN "wrong number of cursor field values specified"
  ELSE IF Len(params.comparisonOps) # Len(params.cursorFieldValues)
  THEN "wrong number of comparison operators specified"
  ELSE IF \E i \in 1..Len(params.comparisonOps) :
            params.comparisonOps[i] \notin {"$lt", "$gt"}
  THEN "invalid comparison operator specified: only $lt and $gt are allowed"
  ELSE ""

\* C23: GenerateCursorQuery returns an error and no query when the numbers
\* of fields and of values differ, when the numbers of operators and of
\* values differ, or when an operator is neither $lt nor $gt, checked in
\* that order; in every other case it returns a query and no error.
C23_BuilderErrors ==
  last.op = "query" =>
    /\ last.out.err = ExpectedErr
    /\ last.out.err # "" <=> last.out.query = <<>>

\* ------------------------------------------------- direction of traversal
\* The strict comparison operators query q applies to field f.
RECURSIVE OpsOn(_, _)
OpsOn(q, f) ==
  IF q.op \in {"$and", "$or"}
  THEN UNION {OpsOn(q.args[i], f) : i \in 1..Len(q.args)}
  ELSE IF q.op \in {"$gt", "$lt"} /\ q.field = f THEN {q.op} ELSE {}

\* The last call issued a fetch.
Fetching == last.op # "none" /\ IssuedOf("find") # {}

\* The fetch of the last call, after a count if there was one.
Fetch == last.out.io[Len(last.out.io)]

\* The direction the last call is to use for the field at position i: the
\* declared one, inverted when a Previous token was given.
Effective(i) ==
  IF last.Previous = <<>> THEN Normalized.SortOrders[i] ELSE -Normalized.SortOrders[i]

\* The fetch sorts the field at position i in its effective direction.
SortsEffective(i) ==
  Fetch.sort[i] = [Key |-> Normalized.PaginatedFields[i], Value |-> Effective(i)]

\* The cursor query of the fetch, when a token was given, compares the field
\* at position i by the operator of its effective direction only.
ComparesEffective(i) ==
  Len(Fetch.filter.args) = 2 =>
    OpsOn(Fetch.filter.args[2], Normalized.PaginatedFields[i])
      \subseteq {IF Effective(i) = 1 THEN "$gt" ELSE "$lt"}

\* C24: a call without Previous token sorts every field in its declared
\* direction and compares it with $gt when ascending and $lt when descending;
\* a call with a Previous token inverts both, for every field, _id included.
C24_Direction ==
  Fetching =>
    /\ Len(Fetch.sort) = NumFields
    /\ \A i \in 1..NumFields : SortsEffective(i) /\ ComparesEffective(i)

\* ------------------------------------------------------- token generation
\* The sort-field values of record r, as the elements of a cursor.
SortValues(r) ==
  [i \in 1..NumFields |->
     [Key |-> Normalized.PaginatedFields[i], Value |-> r[Normalized.PaginatedFields[i]]]]

\* Token tok decodes, without error, to the sort-field values of record r.
TokenOf(tok, r) ==
  tok # <<>> /\ ~decodeCursor(tok).err /\ decodeCursor(tok).d = SortValues(r)

\* C25: on a successful Find with a non-empty page the Previous token, when
\* HasPrevious, decodes to the sort-field values of the first returned record
\* and the Next token, when HasNext, to those of the last returned record;
\* without the flag there is no token.
C25_TokenRecords ==
  (Succeeded /\ last.out.results # <<>>) =>
    /\ IF last.out.cursor.HasPrevious
       THEN TokenOf(last.out.cursor.Previous, last.out.results[1])
       ELSE last.out.cursor.Previous = <<>>
    /\ IF last.out.cursor.HasNext
       THEN TokenOf(last.out.cursor.Next, last.out.results[Len(last.out.results)])
       ELSE last.out.cursor.Next = <<>>

\* A page reached with a Previous token of which one record more was
\* fetched than returned: both tokens are built from the returned record,
\* none from the dropped one.
C25_Witness ==
  /\ Succeeded /\ last.Previous # <<>> /\ last.Next = <<>>
  /\ Len(Fetched) = 2 /\ last.out.results = <<Fetched[1]>>
  /\ TokenOf(last.out.cursor.Previous, Fetched[1])
  /\ TokenOf(last.out.cursor.Next, Fetched[1])
  /\ ~TokenOf(last.out.cursor.Previous, Fetched[2])

\* ------------------------------------------- one FindParams, several calls
\* Sort parameters of a caller that keeps one FindParams value for all its
\* calls: sort fields with and without a trailing _id.
ReuseSorts ==
  {[PaginatedField |-> "", SortAscending |-> TRUE, PaginatedFields |-> f[1],
    SortOrders |-> f[2]] :
     f \in {<<<<"name", "_id">>, <<1, 1>>>>, <<<<"name", "_id">>, <<-1, -1>>>>,
            <<<<"_id">>, <<1>>>>, <<<<"name">>, <<1>>>>}}

\* The caller's parameters before the first call; origin keeps the sort
\* parameters as they were declared.
InitReuse ==
  /\ params \in [Query : {EmptyQuery}, Limit : 1..MaxLimit, sort : ReuseSorts]
  /\ db \in Collections(params.sort)
  /\ last = NoCall
  /\ origin = [declared |-> params.sort]
  /\ seen = <<>>
  /\ fwd = FALSE

\* A call with the kept FindParams: the SortOrders slice of the parameters
\* is what the call left in it.
Reuse(call) ==
  /\ last' = call
  /\ params' = [params EXCEPT !.sort.SortOrders =
                  SortOrdersAfter(FindParamsOf(call.Next, call.Previous, call.Limit,
                                               call.CountTotal), call.out)]
  /\ UNCHANGED <<db, origin, seen, fwd>>

\* Find without token.
ReuseFirst ==
  /\ last.op = "none"
  /\ Reuse(CallOf("first", <<>>, <<>>, params.Limit, FALSE))

\* Find with the Next token of the last page.
ReuseNext ==
  /\ last.op # "none"
  /\ last.out.cursor.Next # <<>>
  /\ Reuse(CallOf("next", last.out.cursor.Next, <<>>, params.Limit, FALSE))

\* Find with the Previous token of the last page.
ReusePrevious ==
  /\ last.op # "none"
  /\ last.out.cursor.Previous # <<>>
  /\ Reuse(CallOf("previous", <<>>, last.out.cursor.Previous, params.Limit, FALSE))

NextReuse == ReuseFirst \/ ReuseNext \/ ReusePrevious

SpecReuse == InitReuse /\ [][NextReuse]_vars

\* C26: after any call the SortOrders and PaginatedFields the caller passed
\* hold the values they held before the first call.
C26_ParamsUnchanged == params.sort = origin.declared

\* C27: after ensureMandatoryParams there are as many sort orders as sort
\* fields, whatever the caller passed, so that no call fails indexing
\* SortOrders by the position of a field.
C27_OrdersPerField ==
  /\ Len(Normalized.SortOrders) = NumFields
  /\ last.op # "none" => last.out.kind # "panic"

\* The token parsing step of a Find with the same sort spec accepts tok.
Accepted(tok) ==
  /\ ~decodeCursor(tok).err
  /\ Len(decodeCursor(tok).d) = NumFields
  /\ parseCursor(tok, NumFields).err = ""

\* C28: every non-empty token a successful Find returned is accepted by the
\* token parsing step of a Find with the same sort spec: it decodes and has
\* as many elements as the normalized sort spec has fields.
C28_TokensAccepted ==
  Succeeded =>
    /\ last.out.cursor.Next # <<>> => Accepted(last.out.cursor.Next)
    /\ last.out.cursor.Previous # <<>> => Accepted(last.out.cursor.Previous)

\* ----------------------------------------------------- backward traversal
\* The ways to sort by one user field and _id.
BackSorts ==
  [PaginatedField : {"name"}, SortAscending : BOOLEAN,
   PaginatedFields : {<<>>}, SortOrders : {<<>>}]
  \cup
  {[PaginatedField |-> "", SortAscending |-> TRUE, PaginatedFields |-> <<"name">>,
    SortOrders |-> o] : o \in Orders(1)}

\* A caller about to traverse forward to the last page and then backward;
\* origin is the last page of the forward traversal, seen the records the
\* backward traversal returned, in the order of the pages.
InitBack ==
  /\ params \in [Query : Queries, Limit : 1..MaxLimit, sort : BackSorts]
  /\ db \in Collections(params.sort)
  /\ last = NoCall
  /\ origin = NoPage
  /\ seen = <<>>
  /\ fwd = TRUE

\* Find without token.
BackFirst ==
  /\ last.op = "none"
  /\ last' = CallOf("first", <<>>, <<>>, params.Limit, FALSE)
  /\ UNCHANGED <<db, params, origin, seen, fwd>>

\* Find with the Next token of the last page, while going forward.
BackNext ==
  /\ fwd /\ last.op # "none"
  /\ last.out.cursor.Next # <<>>
  /\ last' = CallOf("next", last.out.cursor.Next, <<>>, params.Limit, FALSE)
  /\ UNCHANGED <<db, params, origin, seen, fwd>>

\* Find with the Previous token of the last page: the first one from the
\* page the forward traversal ended with, the others from the page before.
BackPrevious ==
  /\ last.op # "none"
  /\ fwd => last.out.cursor.Next = <<>>
  /\ last.out.cursor.Previous # <<>>
  /\ last' = CallOf("previous", <<>>, last.out.cursor.Previous, params.Limit, FALSE)
  /\ origin' = IF fwd THEN [set |-> TRUE, results |-> last.out.results] ELSE origin
  /\ seen' = last'.out.results \o seen
  /\ fwd' = FALSE
  /\ UNCHANGED <<db, params>>

NextBack == BackFirst \/ BackNext \/ BackPrevious

SpecBack == InitBack /\ [][NextBack]_vars

\* The position of record r in the declared order of the matching records.
Rank(r) == CHOOSE i \in 1..Len(InOrder) : InOrder[i] = r

\* The matching records that precede the page the backward traversal began
\* from, in the declared order.
Preceding == Prefix(InOrder, Rank(origin.results[1]) - 1)

\* C29: going backward from the last page of a forward traversal, every
\* page is a run of the records preceding the pages visited so far, none
\* twice; a page with HasPrevious has a Previous token and records, and the
\* page without HasPrevious starts with the first record of the ordering, all
\* the preceding records having been visited once.
C29_Backward ==
  (~fwd /\ origin.results # <<>>) =>
    /\ Succeeded
    /\ NoDuplicates(seen)
    /\ \E k \in 0..Len(Preceding) : seen = SubSeq(Preceding, k + 1, Len(Preceding))
    /\ last.out.cursor.HasPrevious =>
          last.out.cursor.Previous # <<>> /\ last.out.results # <<>>
    /\ ~last.out.cursor.HasPrevious => seen = Preceding

\* ------------------------------------------------------- concurrent writes
\* The most writes of other clients between two page fetches.
MaxWrites == 2

\* The collections a traversal can start on: any records with distinct _id.
WriteCollections ==
  {S \in SUBSET [_id : Ids, name : Vals, data : {1}] :
     \A a, b \in S : a._id = b._id => a = b}

\* A caller about to traverse forward while other clients write; origin
\* holds the records present since the first fetch, seen the records the
\* traversal returned, fwd the writes since the last fetch.
InitWrites ==
  /\ params \in [Query : Queries, Limit : 1..MaxLimit, sort : BackSorts]
  /\ db \in WriteCollections
  /\ last = NoCall
  /\ origin = [set |-> FALSE, stable |-> {}]
  /\ seen = <<>>
  /\ fwd = 0

\* Find without token.
WritesFirst ==
  /\ last.op = "none"
  /\ last' = CallOf("first", <<>>, <<>>, params.Limit, FALSE)
  /\ origin' = [set |-> TRUE, stable |-> db]
  /\ seen' = last'.out.results
  /\ fwd' = 0
  /\ UNCHANGED <<db, params>>

\* Find with the Next token of the last page.
WritesNext ==
  /\ last.op # "none"
  /\ last.out.cursor.Next # <<>>
  /\ last' = CallOf("next", last.out.cursor.Next, <<>>, params.Limit, FALSE)
  /\ seen' = seen \o last'.out.results
  /\ fwd' = 0
  /\ UNCHANGED <<db, params, origin>>

\* Another client inserts a record between two page fetches.
Insert ==
  /\ last.op # "none" /\ last.out.cursor.Next # <<>>
  /\ fwd < MaxWrites
  /\ \E d \in [_id : Ids, name : Vals, data : {1}] :
       /\ \A e \in db : e._id # d._id
       /\ db' = db \cup {d}
  /\ fwd' = fwd + 1
  /\ UNCHANGED <<params, last, origin, seen>>

\* Another client deletes a record between two page fetches.
Delete ==
  /\ last.op # "none" /\ last.out.cursor.Next # <<>>
  /\ fwd < MaxWrites
  /\ \E d \in db :
       /\ db' = db \ {d}
       /\ origin' = [origin EXCEPT !.stable = @ \ {d}]
  /\ fwd' = fwd + 1
  /\ UNCHANGED <<params, last, seen>>

NextWrites == WritesFirst \/ WritesNext \/ Insert \/ Delete

SpecWrites == InitWrites /\ [][NextWrites]_vars

\* The number of times record r was returned by the traversal.
Times(r) == Cardinality({i \in 1..Len(seen) : seen[i] = r})

\* The records that matched the filter during the whole traversal so far.
Stable == {r \in origin.stable : Matches(r, params.Query)}

\* C30: in a forward traversal with inserts and deletes of other clients
\* between the fetches, no record present since the first fetch is returned
\* twice, and when the traversal has ended each of them was returned once.
C30_StableOnce ==
  last.op # "none" =>
    /\ Succeeded
    /\ \A r \in Stable : Times(r) <= 1
    /\ last.out.cursor.Next = <<>> => \A r \in Stable : Times(r) = 1
====
